---- MODULE Spec2Model ----
(***************************************************************************)
(* Holiday cache and refresh orchestration of HolidayBot (src/holidays.py).*)
(*                                                                         *)
(* Tasks are asyncio coroutines on one event loop: a step of the model is  *)
(* the code that runs between two suspension points (the await of the     *)
(* refresh lock and the awaits of _download_html).  Calendar dates are day *)
(* numbers, a moment is [day, hour, minute] in the reference timezone.     *)
(* The stored ISO date of a slot is represented by its day number and the  *)
(* stored ISO timestamp by its moment.  _write_payload is modelled for a   *)
(* writable cache file (its OSError branch only logs).                     *)
(*                                                                         *)
(* The autopost scheduler (autopost_loop of src/main.py) and the autopost  *)
(* time setting are the second part.  A string is the sequence of its      *)
(* characters.  A step of a loop is the code between two awaits; its call  *)
(* of get_today_holidays is taken at the step its refresh ends, and the    *)
(* Telegram calls of one announcement are taken together.                  *)
(***************************************************************************)
EXTENDS Integers, Sequences, FiniteSets, TLC

\* ---------------------------------------------------------------- bounds
NumTasks == 2
MaxDay == 1
MaxCalls == 2
MaxLen == 5
MaxNames == 3
MaxTokens == 5

\* A task is the coroutine of one call; it is named by the rank of its call.
CallIds == 1..MaxCalls

\* Times of day the clock visits in the concurrent specification: one outside
\* the lookahead window and one inside it.
CoarsePoints == << [hour |-> 0, minute |-> 0], [hour |-> 23, minute |-> 50] >>

\* Times of day of the boundary specification, in order (the boundaries of
\* the 23:45 window, and a minute >= 45 outside hour 23).
TimePoints ==
    << [hour |-> 0, minute |-> 0], [hour |-> 22, minute |-> 50],
       [hour |-> 23, minute |-> 44], [hour |-> 23, minute |-> 45],
       [hour |-> 23, minute |-> 59] >>

\* What one fetch followed by the extraction can yield for a date.
HolidayLists == { <<>>, <<"A", "B">> }

\* A URL is the base path followed by the date appended to it, if any.
CALEND_RU_URL == << "https://www.calend.ru/day/" >>

\* User-visible notices (the fixed Russian texts of the source).
ErrNoneToday == "no holidays found for today"
ErrNoneOnDate == "no holidays found on that date"
ErrStale == "could not update, showing previously saved data"
ErrNoData == "could not retrieve holiday data"
NoError == "none"

VARIABLES
    clock,          \* datetime.now(MOSCOW_TZ)
    payload,        \* _cache_payload (the one dict every operation mutates)
    disk,           \* content of the cache file
    cached_result,  \* _cached_result
    lock,           \* _refresh_lock: the set of tasks holding it
    task,           \* the running tasks: position and locals of each
    calls,          \* number of operations started
    last,           \* the operation that returned in the step just taken, and its outcome
    autopost_event, \* _autopost_event: whether the shared asyncio.Event is set
    loops           \* the autopost_loop task of each chat: position and locals

vars == << clock, payload, disk, cached_result, lock, task, calls, last,
           autopost_event, loops >>

\* ------------------------------------------------------------ pure helpers
Moment(d, tp) == [day |-> d, hour |-> tp.hour, minute |-> tp.minute]

NoneVal == [kind |-> "none"]
Raised == [kind |-> "raised"]

HolidayResult(d, hs, url, fetched, err) ==
    [kind |-> "result", date |-> d, holidays |-> hs, source_url |-> url,
     fetched_at |-> fetched, error |-> err]

has_data(r) == r.holidays # <<>>

_serialize_day(target_date, holidays, fetched_at) ==
    [date |-> target_date, holidays |-> holidays, fetched_at |-> fetched_at,
     source_url |-> CALEND_RU_URL]

_payload_entry_to_result(entry, now) ==
    HolidayResult(entry.date, entry.holidays, entry.source_url, entry.fetched_at,
                  IF entry.holidays # <<>> THEN NoError
                  ELSE IF entry.date = now.day THEN ErrNoneToday
                  ELSE ErrNoneOnDate)

_default_payload(autopost_time, moment) ==
    [autopost_time |-> autopost_time,
     updated_at |-> moment,
     today |-> _serialize_day(moment.day, <<>>, moment),
     tomorrow |-> _serialize_day(moment.day + 1, <<>>, moment),
     autopost_message_ids |-> <<>>,
     original_chat_title |-> NoneVal]

\* The bug of looking at the `today` slot alone.
get_cached_holiday_result_TodayOnly(p, target_date, now) ==
    IF p.today.date = target_date THEN _payload_entry_to_result(p.today, now)
    ELSE NoneVal

\* The bug of picking the slot by its label: `today` is taken to be the date
\* of the last update and `tomorrow` the date after it.
get_cached_holiday_result_ByLabel(p, target_date, now) ==
    IF target_date = p.updated_at.day /\ p.today.date = target_date
    THEN _payload_entry_to_result(p.today, now)
    ELSE IF target_date = p.updated_at.day + 1 /\ p.tomorrow.date = target_date
    THEN _payload_entry_to_result(p.tomorrow, now)
    ELSE NoneVal

get_cached_holiday_result(p, target_date, now) ==
    IF p.today.date = target_date THEN _payload_entry_to_result(p.today, now)
    ELSE IF p.tomorrow.date = target_date THEN _payload_entry_to_result(p.tomorrow, now)
    ELSE NoneVal

\* The bug of testing the minute alone.
is_near_midnight_MinuteOnly(moment) == moment.minute >= 45

is_near_midnight(moment) == moment.hour = 23 /\ moment.minute >= 45

refresh_today_date(moment) ==
    IF is_near_midnight(moment) THEN moment.day + 1 ELSE moment.day

refresh_tomorrow_date(moment) ==
    IF is_near_midnight(moment) THEN moment.day + 2 ELSE moment.day + 1

\* The bug of `if cached:` in place of `if cached and cached.has_data:`.
cache_hit_AnyEntry(p, target_date, now, force_refresh) ==
    /\ ~force_refresh
    /\ get_cached_holiday_result(p, target_date, now).kind = "result"

cache_hit(p, target_date, now, force_refresh) ==
    /\ ~force_refresh
    /\ get_cached_holiday_result(p, target_date, now).kind = "result"
    /\ has_data(get_cached_holiday_result(p, target_date, now))

\* The bug of handing the cached result back as it is, without the notice.
stale_result_KeepError(cached) == cached

stale_result(cached) ==
    HolidayResult(cached.date, cached.holidays, cached.source_url,
                  cached.fetched_at, ErrStale)

fallback_result(target_date, moment) ==
    HolidayResult(target_date, <<>>, CALEND_RU_URL, moment, ErrNoData)

\* What get_today_holidays returns once its refresh has raised.
failure_result(p, target_date, moment, now) ==
    IF get_cached_holiday_result(p, target_date, now).kind = "result"
    THEN stale_result(get_cached_holiday_result(p, target_date, now))
    ELSE fallback_result(target_date, moment)

\* The bug of an except clause that misses the RuntimeError of _download_html.
on_refresh_exception_Uncaught(op, p, target_date, moment, now) == Raised

\* The exception of a failed fetch leaves refresh_holiday_cache; only
\* get_today_holidays catches it.
on_refresh_exception(op, p, target_date, moment, now) ==
    IF op = "get_today" THEN failure_result(p, target_date, moment, now)
    ELSE Raised

\* The bug of filing the first slot as soon as its page is extracted.
payload_after_first_fetch_Eager(p, moment, holidays) ==
    [p EXCEPT !.today = _serialize_day(refresh_today_date(moment), holidays, moment)]

\* Between the two downloads the first page lives in a local variable.
payload_after_first_fetch(p, moment, holidays) == p

\* The bug of a refresh that writes the `today` slot only.
payload_after_refresh_SlotBySlot(p, moment, today_holidays, tomorrow_holidays) ==
    [p EXCEPT !.today = _serialize_day(refresh_today_date(moment), today_holidays, moment),
              !.updated_at = moment]

payload_after_refresh(p, moment, today_holidays, tomorrow_holidays) ==
    [p EXCEPT !.today = _serialize_day(refresh_today_date(moment), today_holidays, moment),
              !.tomorrow = _serialize_day(refresh_tomorrow_date(moment), tomorrow_holidays, moment),
              !.updated_at = moment]

\* The bug of a direct result that carries no notice when its list is empty.
direct_result_NoNotice(target_date, holidays, now) ==
    HolidayResult(target_date, holidays, CALEND_RU_URL \o << target_date >>, now, NoError)

direct_result(target_date, holidays, now) ==
    HolidayResult(target_date, holidays, CALEND_RU_URL \o << target_date >>, now,
                  IF holidays # <<>> THEN NoError
                  ELSE IF target_date = now.day THEN ErrNoneToday
                  ELSE ErrNoneOnDate)

\* The bug of taking the lock without waiting for it.
lock_free_Always(l) == TRUE

lock_free(l) == l = {}

Slots(p) == [today |-> p.today, tomorrow |-> p.tomorrow, updated_at |-> p.updated_at]

NewTask ==
    [pc |-> "new", op |-> "none", force |-> FALSE, moment |-> [day |-> 0, hour |-> 0, minute |-> 0],
     target |-> 0, today_holidays |-> <<>>, ret |-> NoneVal,
     waited |-> FALSE, nfetch |-> 0, failed |-> FALSE,
     snap |-> NoneVal]

\* ---------------------------------------------------------------- strings
\* The characters of the time strings tried: digits, the separator, a blank
\* and a sign.
TimeChars == { "0", "2", "3", "4", "6", ":", " ", "+" }

Digits == << "0", "1", "2", "3", "4", "5", "6", "7", "8", "9" >>

IsDigit(c) == \E i \in 1..Len(Digits) : Digits[i] = c

DigitVal(c) == (CHOOSE i \in 1..Len(Digits) : Digits[i] = c) - 1

IsSpace(c) == c = " "

ValueError == [kind |-> "ValueError"]

\* A string held where None may stand instead.
Str(s) == [kind |-> "str", value |-> s]

\* F applied to the value of x: x is evaluated once, where a LET would be
\* evaluated again at each of its uses.
Bind(F(_), x) == CHOOSE r \in { F(y) : y \in { x } } : TRUE

RECURSIVE lstrip(_)
lstrip(s) == IF s # << >> /\ IsSpace(Head(s)) THEN lstrip(Tail(s)) ELSE s

RECURSIVE rstrip(_)
rstrip(s) ==
    IF s # << >> /\ IsSpace(s[Len(s)])
    THEN Bind(rstrip, SubSeq(s, 1, Len(s) - 1))
    ELSE s

\* str.strip()
strip(s) == Bind(rstrip, lstrip(s))

\* str.split(sep): the pieces between the separators, empty pieces included.
RECURSIVE split(_, _)
split(s, sep) ==
    IF \A i \in 1..Len(s) : s[i] # sep
    THEN << s >>
    ELSE LET i == CHOOSE j \in 1..Len(s) :
                     s[j] = sep /\ \A k \in 1..(j - 1) : s[k] # sep
         IN << SubSeq(s, 1, i - 1) >>
              \o Bind(LAMBDA rest : split(rest, sep), SubSeq(s, i + 1, Len(s)))

RECURSIVE DecimalValue(_)
DecimalValue(s) ==
    IF s = << >> THEN 0
    ELSE Bind(DecimalValue, SubSeq(s, 1, Len(s) - 1)) * 10 + DigitVal(s[Len(s)])

\* The literal int() is left with once the blanks around it are dropped: one
\* sign may lead, and at least one digit must follow.
int_literal(t) ==
    LET signed == t # << >> /\ Head(t) \in { "+", "-" }
        body == IF signed THEN Tail(t) ELSE t
    IN IF body # << >> /\ \A i \in 1..Len(body) : IsDigit(body[i])
       THEN [ok |-> TRUE,
             val |-> IF signed /\ Head(t) = "-" THEN 0 - DecimalValue(body)
                     ELSE DecimalValue(body)]
       ELSE [ok |-> FALSE, val |-> 0]

\* int(str)
int(s) == Bind(int_literal, strip(s))

\* f"{n:02d}" for 0 <= n <= 99
Format02(n) == << Digits[(n \div 10) + 1], Digits[(n % 10) + 1] >>

in_range(hour_int, minute_int) ==
    0 <= hour_int /\ hour_int <= 23 /\ 0 <= minute_int /\ minute_int <= 59

\* _normalize_time from the two parts on: hm holds int() of each.
normalize_hour_minute(hm) ==
    IF ~hm[1].ok \/ ~hm[2].ok THEN ValueError
    ELSE IF ~in_range(hm[1].val, hm[2].val) THEN ValueError
    ELSE Str(Format02(hm[1].val) \o << ":" >> \o Format02(hm[2].val))

normalize_parts(parts) ==
    IF Len(parts) # 2 THEN ValueError
    ELSE Bind(normalize_hour_minute, << int(parts[1]), int(parts[2]) >>)

normalize_stripped(valuestrip) ==
    IF valuestrip = << >> THEN ValueError
    ELSE Bind(normalize_parts, split(valuestrip, ":"))

_normalize_time(value) == Bind(normalize_stripped, strip(value))

get_autopost_time(p) == p.autopost_time

\* The hour and minute autopost_loop reads from the setting; ok is FALSE
\* when int(), the unpacking of the two parts or time(hour, minute) raises.
parse_hour_minute(hm) ==
    IF hm[1].ok /\ hm[2].ok /\ in_range(hm[1].val, hm[2].val)
    THEN [ok |-> TRUE, hour |-> hm[1].val, minute |-> hm[2].val]
    ELSE [ok |-> FALSE, hour |-> 0, minute |-> 0]

parse_parts(parts) ==
    IF Len(parts) = 2
    THEN Bind(parse_hour_minute, << int(parts[1]), int(parts[2]) >>)
    ELSE [ok |-> FALSE, hour |-> 0, minute |-> 0]

parse_autopost_time(autopost_time) == Bind(parse_parts, split(autopost_time, ":"))

\* Minutes from 00:00 of day 0 to the moment.
Minutes(m) == m.day * 1440 + m.hour * 60 + m.minute

\* The bug of rolling over only when the target is strictly before now.
next_run_StrictlyPast(hm, now) ==
    IF Minutes(Moment(now.day, hm)) < Minutes(now)
    THEN Moment(now.day + 1, hm)
    ELSE Moment(now.day, hm)

\* The fire instant: today's date at the setting's time, or the next day's
\* when that is not after now.
next_run(hm, now) ==
    IF Minutes(Moment(now.day, hm)) <= Minutes(now)
    THEN Moment(now.day + 1, hm)
    ELSE Moment(now.day, hm)

\* ------------------------------------------------------------------- Init
DefaultAutopostTime == << "0", "0", ":", "0", "0" >>

\* A cache file left by an earlier run: the payload of a refresh of the day
\* before, normal or lookahead, that found holidays.  (Empty slots come
\* from the default payload and from the refreshes of the run itself.)
PriorMoments == { Moment(-1, CoarsePoints[1]), Moment(-1, CoarsePoints[2]) }

FilePayloads ==
    { payload_after_refresh(_default_payload(DefaultAutopostTime, m), m, h, h) :
        m \in PriorMoments, h \in HolidayLists \ { << >> } }

\* The chats of TARGET_CHAT_IDS: one autopost_loop task each.
Chats == { "chat" }

\* An autopost_loop task at the top of its while loop.
NewLoop ==
    [pc |-> "start", next_run |-> NoneVal, fired |-> NoneVal,
     moment |-> NoneVal, result |-> NoneVal, woken |-> "never",
     setting |-> NoneVal]

\* initialize_holiday_cache at `now`: no cache file, or the file of an
\* earlier run.
InitAt(now) ==
    /\ clock = now
    /\ payload \in FilePayloads \cup { _default_payload(DefaultAutopostTime, now) }
    /\ disk = payload
    /\ cached_result = _payload_entry_to_result(payload.today, now)
    /\ lock = {}
    /\ task = << >>
    /\ calls = 0
    /\ last = [who |-> {}, call |-> NewTask]
    /\ autopost_event = FALSE
    /\ loops = [c \in Chats |-> NewLoop]

Init == InitAt(Moment(0, CoarsePoints[1]))

\* ---------------------------------------------------------------- actions
Running == DOMAIN task

\* A new call may start: its task is named calls + 1.
CanCall == calls < MaxCalls /\ Cardinality(Running) < NumTasks

Put(t, r) == [u \in Running \cup {t} |-> IF u = t THEN r ELSE task[u]]

Drop(t) == [u \in Running \ {t} |-> task[u]]

\* No operation returns in this step.
NoReturn == last' = [who |-> {}, call |-> NewTask]

\* The operation of task t returns (or raises) `ret`; the task ends.
Complete(t, r, ret, failed) ==
    /\ task' = Drop(t)
    /\ last' = [who |-> {t},
                call |-> [r EXCEPT !.pc = "done", !.ret = ret, !.failed = failed,
                                   !.today_holidays = <<>>, !.snap = NoneVal]]

\* refresh_holiday_cache up to its first suspension: the lock, or the first
\* download once the lock is held.
BeginRefresh(t, r) ==
    /\ IF lock_free(lock)
       THEN /\ lock' = lock \cup {t}
            /\ task' = Put(t, [r EXCEPT !.pc = "fetch_today",
                                        !.snap = Slots(payload),
                                        !.nfetch = 1])
       ELSE /\ lock' = lock
            /\ task' = Put(t, [r EXCEPT !.pc = "wait_lock", !.waited = TRUE])
    /\ NoReturn

CallGetTodayHolidays(force_refresh) ==
    /\ CanCall
    /\ calls' = calls + 1
    /\ LET r == [NewTask EXCEPT !.op = "get_today", !.force = force_refresh,
                                !.moment = clock, !.target = clock.day]
           cached == get_cached_holiday_result(payload, clock.day, clock)
       IN IF cache_hit(payload, clock.day, clock, force_refresh)
          THEN /\ cached_result' = cached
               /\ Complete(calls + 1, r, cached, FALSE)
               /\ lock' = lock
          ELSE /\ BeginRefresh(calls + 1, r)
               /\ cached_result' = cached_result
    /\ UNCHANGED << clock, payload, disk, autopost_event, loops >>

CallRefresh ==
    /\ CanCall
    /\ calls' = calls + 1
    /\ BeginRefresh(calls + 1, [NewTask EXCEPT !.op = "refresh", !.moment = clock,
                                               !.target = clock.day])
    /\ UNCHANGED << clock, payload, disk, cached_result, autopost_event, loops >>

\* The bug of a cache read that waits for the refresh lock.
CallEnsure_Locked(target_date) ==
    /\ CanCall
    /\ calls' = calls + 1
    /\ LET r == [NewTask EXCEPT !.op = "ensure", !.moment = clock,
                                !.target = target_date]
           cached == get_cached_holiday_result(payload, target_date, clock)
       IN IF cached.kind = "result" /\ lock_free(lock)
          THEN /\ Complete(calls + 1, r, cached, FALSE)
               /\ lock' = lock
          ELSE IF cached.kind = "result" \/ target_date = clock.day
                  \/ target_date = clock.day + 1
          THEN BeginRefresh(calls + 1, r)
          ELSE /\ task' = Put(calls + 1, [r EXCEPT !.pc = "fetch_direct", !.nfetch = 1])
               /\ lock' = lock
               /\ NoReturn
    /\ UNCHANGED << clock, payload, disk, cached_result, autopost_event, loops >>

CallEnsure(target_date) ==
    /\ CanCall
    /\ calls' = calls + 1
    /\ LET r == [NewTask EXCEPT !.op = "ensure", !.moment = clock,
                                !.target = target_date]
           cached == get_cached_holiday_result(payload, target_date, clock)
       IN IF cached.kind = "result"
          THEN /\ Complete(calls + 1, r, cached, FALSE)
               /\ lock' = lock
          ELSE IF target_date = clock.day \/ target_date = clock.day + 1
          THEN BeginRefresh(calls + 1, r)
          ELSE /\ task' = Put(calls + 1, [r EXCEPT !.pc = "fetch_direct", !.nfetch = 1])
               /\ lock' = lock
               /\ NoReturn
    /\ UNCHANGED << clock, payload, disk, cached_result, autopost_event, loops >>

\* The bug of skipping the downloads after a wait: the caller takes the entry
\* the finished refresh left in the cache.
AcquireLock_TakeCached(t) ==
    /\ task[t].pc = "wait_lock"
    /\ lock_free(lock)
    /\ lock' = lock
    /\ Complete(t, task[t],
                get_cached_holiday_result(payload, task[t].target, clock), FALSE)
    /\ UNCHANGED << clock, payload, disk, cached_result, calls, autopost_event, loops >>

\* The lock is free: a waiting refresh takes it and starts its first download.
AcquireLock(t) ==
    /\ task[t].pc = "wait_lock"
    /\ lock_free(lock)
    /\ lock' = lock \cup {t}
    /\ task' = Put(t, [task[t] EXCEPT !.pc = "fetch_today",
                                      !.snap = Slots(payload),
                                      !.nfetch = 1])
    /\ NoReturn
    /\ UNCHANGED << clock, payload, disk, cached_result, calls, autopost_event, loops >>

FetchTodayOk(t) ==
    /\ task[t].pc = "fetch_today"
    /\ \E hs \in HolidayLists :
         /\ payload' = payload_after_first_fetch(payload, task[t].moment, hs)
         /\ task' = Put(t, [task[t] EXCEPT !.pc = "fetch_tomorrow",
                                           !.today_holidays = hs,
                                           !.nfetch = 2])
    /\ NoReturn
    /\ UNCHANGED << clock, disk, cached_result, lock, calls, autopost_event, loops >>

\* The second download returns: extraction, the write of both slots, the
\* file, the release of the lock and the caller's continuation.
FetchTomorrowOk(t) ==
    /\ task[t].pc = "fetch_tomorrow"
    /\ \E hs \in HolidayLists :
         LET p == payload_after_refresh(payload, task[t].moment,
                                        task[t].today_holidays, hs)
             result == _payload_entry_to_result(p.today, clock)
         IN /\ payload' = p
            /\ disk' = p
            /\ cached_result' = result
            /\ Complete(t, task[t],
                        IF task[t].op = "ensure"
                        THEN get_cached_holiday_result(p, task[t].target, clock)
                        ELSE result,
                        FALSE)
    /\ lock' = lock \ {t}
    /\ UNCHANGED << clock, calls, autopost_event, loops >>

\* The bug of a refresh that raises without leaving `async with`.
RefreshRaises_KeepsLock(t) ==
    LET ret == on_refresh_exception(task[t].op, payload, task[t].moment.day,
                                    task[t].moment, clock)
    IN /\ lock' = lock
       /\ Complete(t, task[t], ret, TRUE)
       /\ cached_result' = IF ret.kind = "result" THEN ret ELSE cached_result
       /\ UNCHANGED << clock, payload, disk, calls, autopost_event, loops >>

\* A download raises (timeout or network error).
RefreshRaises(t) ==
    LET ret == on_refresh_exception(task[t].op, payload, task[t].moment.day,
                                    task[t].moment, clock)
    IN /\ lock' = lock \ {t}
       /\ Complete(t, task[t], ret, TRUE)
       /\ cached_result' = IF ret.kind = "result" THEN ret ELSE cached_result
       /\ UNCHANGED << clock, payload, disk, calls, autopost_event, loops >>

FetchTodayFail(t) ==
    /\ task[t].pc = "fetch_today"
    /\ RefreshRaises(t)

FetchTomorrowFail(t) ==
    /\ task[t].pc = "fetch_tomorrow"
    /\ RefreshRaises(t)

\* The bug of filing the page of a direct fetch in the cache.
DirectFetchOk_Filed(t) ==
    /\ task[t].pc = "fetch_direct"
    /\ \E hs \in HolidayLists :
         /\ payload' = [payload EXCEPT !.today = _serialize_day(task[t].target, hs, clock)]
         /\ disk' = payload'
         /\ Complete(t, task[t], direct_result(task[t].target, hs, clock), FALSE)
    /\ UNCHANGED << clock, cached_result, lock, calls, autopost_event, loops >>

DirectFetchOk(t) ==
    /\ task[t].pc = "fetch_direct"
    /\ \E hs \in HolidayLists :
         Complete(t, task[t], direct_result(task[t].target, hs, clock), FALSE)
    /\ UNCHANGED << clock, payload, disk, cached_result, lock, calls, autopost_event, loops >>

DirectFetchFail(t) ==
    /\ task[t].pc = "fetch_direct"
    /\ Complete(t, task[t], NoneVal, TRUE)
    /\ UNCHANGED << clock, payload, disk, cached_result, lock, calls, autopost_event, loops >>

TimeIndex(points, m) == CHOOSE i \in 1..Len(points) :
                            points[i] = [hour |-> m.hour, minute |-> m.minute]

\* The clock moves to the next time of day of `points`, or to the next day.
TickOver(points) ==
    IF TimeIndex(points, clock) < Len(points)
    THEN clock' = Moment(clock.day, points[TimeIndex(points, clock) + 1])
    ELSE /\ clock.day < MaxDay
         /\ clock' = Moment(clock.day + 1, points[1])

Tick ==
    /\ TickOver(CoarsePoints)
    /\ NoReturn
    /\ UNCHANGED << payload, disk, cached_result, lock, task, calls, autopost_event, loops >>

Next ==
    \/ \E f \in BOOLEAN : CallGetTodayHolidays(f)
    \/ CallRefresh
    \/ \E d \in {clock.day, clock.day + 3} : CallEnsure(d)
    \/ \E t \in Running : AcquireLock(t)
    \/ \E t \in Running : FetchTodayOk(t)
    \/ \E t \in Running : FetchTodayFail(t)
    \/ \E t \in Running : FetchTomorrowOk(t)
    \/ \E t \in Running : FetchTomorrowFail(t)
    \/ \E t \in Running : DirectFetchOk(t)
    \/ \E t \in Running : DirectFetchFail(t)
    \/ Tick

Spec == Init /\ [][Next]_vars

\* A step of the operation of task t: the lock is granted, or a download
\* returns or raises.
TaskStep(t) ==
    /\ t \in Running
    /\ \/ AcquireLock(t)
       \/ FetchTodayOk(t)
       \/ FetchTodayFail(t)
       \/ FetchTomorrowOk(t)
       \/ FetchTomorrowFail(t)
       \/ DirectFetchOk(t)
       \/ DirectFetchFail(t)

\* Every download returns or times out (ClientTimeout, holidays.py:388-430)
\* and the event loop resumes a task whose lock has been granted; callers and
\* the clock owe nothing.
FairTasks == \A t \in CallIds : WF_vars(TaskStep(t))

SpecFair == Spec /\ FairTasks

\* The boundary specification: one refresh at a time, the clock visiting
\* every time of day of TimePoints.
InitBoundary == \E i \in 1..Len(TimePoints) : InitAt(Moment(0, TimePoints[i]))

CallRefreshAlone ==
    /\ Running = {}
    /\ CallRefresh

TickBoundary ==
    /\ TickOver(TimePoints)
    /\ NoReturn
    /\ UNCHANGED << payload, disk, cached_result, lock, task, calls, autopost_event, loops >>

NextBoundary ==
    \/ CallRefreshAlone
    \/ \E t \in Running : FetchTodayOk(t)
    \/ \E t \in Running : FetchTodayFail(t)
    \/ \E t \in Running : FetchTomorrowOk(t)
    \/ \E t \in Running : FetchTomorrowFail(t)
    \/ TickBoundary

SpecBoundary == InitBoundary /\ [][NextBoundary]_vars

\* ------------------------------------------------------------ scheduler
\* Times of day the clock visits in the scheduler specifications.
SchedPoints == << [hour |-> 0, minute |-> 0], [hour |-> 20, minute |-> 30] >>

\* Values of AUTOPOST_TIME the process may be started with: main passes the
\* variable to initialize_holiday_cache as it is.
EnvAutopostTimes ==
    { DefaultAutopostTime,
      << "2", "0", ":", "3", "0" >>,
      << "2", "4", ":", "0", "0" >> }

\* Values update_autopost_time is called with: two that normalize, the first
\* through strip() and zero padding, and two that fail validation.
UpdateValues ==
    { << " ", "0", ":", "0" >>,
      << "2", "0", ":", "3", "0" >>,
      << "2", "4", ":", "0", "0" >>,
      << >> }

\* What re.sub leaves of the chat's title.
CleanedTitles == { Str(<< "T" >>) }

\* msg.message_id: Telegram's ids are not told apart.
SentMessageId == "message_id"

\* initialize_holiday_cache at 00:00 of day 0 with no cache file.
InitScheduler ==
    \E t \in EnvAutopostTimes :
        /\ clock = Moment(0, SchedPoints[1])
        /\ payload = _default_payload(t, clock)
        /\ disk = payload
        /\ cached_result = _payload_entry_to_result(payload.today, clock)
        /\ lock = {}
        /\ task = << >>
        /\ calls = 0
        /\ last = [who |-> {}, call |-> NewTask]
        /\ autopost_event = FALSE
        /\ loops = [c \in Chats |-> NewLoop]

\* The top of the loop up to the wait: the setting is read and parsed and the
\* fire instant computed; an exception goes to the handler of the loop, which
\* sleeps.  With the event already set the wait returns at once.
StartCycle(c) ==
    /\ loops[c].pc = "start"
    /\ \E hm \in { parse_autopost_time(get_autopost_time(payload)) } :
          loops' = [loops EXCEPT ![c] =
                      IF ~hm.ok
                      THEN [@ EXCEPT !.pc = "error_pause"]
                      ELSE [@ EXCEPT !.pc = IF autopost_event THEN "signalled"
                                            ELSE "waiting",
                                     !.next_run = next_run(hm, clock)]]
    /\ NoReturn
    /\ UNCHANGED << clock, payload, disk, cached_result, lock, task, calls,
                    autopost_event >>

\* The timeout of wait_for expires.
TimerFires(c) ==
    /\ loops[c].pc = "waiting"
    /\ Minutes(clock) >= Minutes(loops[c].next_run)
    /\ loops' = [loops EXCEPT ![c].pc = "timed_out"]
    /\ NoReturn
    /\ UNCHANGED << clock, payload, disk, cached_result, lock, task, calls,
                    autopost_event >>

\* The bug of a missing `continue`: the woken loop goes on to announce.
ResumeSignalled_Announces(c) ==
    /\ loops[c].pc = "signalled"
    /\ autopost_event' = FALSE
    /\ loops' = [loops EXCEPT ![c].pc = "timed_out", ![c].woken = "signal"]
    /\ NoReturn
    /\ UNCHANGED << clock, payload, disk, cached_result, lock, task, calls >>

\* event.wait() has returned: the loop clears the event and continues.
ResumeSignalled(c) ==
    /\ loops[c].pc = "signalled"
    /\ autopost_event' = FALSE
    /\ loops' = [loops EXCEPT ![c].pc = "start", ![c].woken = "signal"]
    /\ NoReturn
    /\ UNCHANGED << clock, payload, disk, cached_result, lock, task, calls >>

\* asyncio.TimeoutError: the announcement starts with get_today_holidays(),
\* which answers from the cache or goes on to refresh.
ResumeTimedOut(c) ==
    /\ loops[c].pc = "timed_out"
    /\ LET cached == get_cached_holiday_result(payload, clock.day, clock)
       IN IF cache_hit(payload, clock.day, clock, FALSE)
          THEN /\ cached_result' = cached
               /\ loops' = [loops EXCEPT ![c].pc = "posting",
                                         ![c].woken = "timeout",
                                         ![c].fired = loops[c].next_run,
                                         ![c].result = cached]
          ELSE /\ cached_result' = cached_result
               /\ loops' = [loops EXCEPT ![c].pc = "querying",
                                         ![c].woken = "timeout",
                                         ![c].fired = loops[c].next_run,
                                         ![c].moment = clock,
                                         ![c].setting =
                                             [began |-> payload.autopost_time,
                                              ended |-> NoneVal]]
    /\ NoReturn
    /\ UNCHANGED << clock, payload, disk, lock, task, calls, autopost_event >>

\* The bug of a refresh that writes the payload it read before its downloads.
QueryOk_FromSnapshot(c) ==
    /\ loops[c].pc = "querying"
    /\ \E hs \in HolidayLists \ { << >> } :
         LET p == [payload_after_refresh(payload, loops[c].moment, hs, hs)
                     EXCEPT !.autopost_time = loops[c].setting.began]
             result == _payload_entry_to_result(p.today, clock)
         IN /\ payload' = p
            /\ disk' = p
            /\ cached_result' = result
            /\ loops' = [loops EXCEPT ![c].pc = "posting",
                                      ![c].moment = NoneVal,
                                      ![c].setting.ended = p.autopost_time,
                                      ![c].result = result]
    /\ NoReturn
    /\ UNCHANGED << clock, lock, task, calls, autopost_event >>

\* The refresh of the loop's get_today_holidays succeeds (with pages that
\* list holidays; empty entries come from the default payload): the payload
\* is read after the downloads; `setting` keeps the autopost_time the payload
\* held when the refresh began and when it wrote.
QueryOk(c) ==
    /\ loops[c].pc = "querying"
    /\ \E hs \in HolidayLists \ { << >> } :
         LET p == payload_after_refresh(payload, loops[c].moment, hs, hs)
             result == _payload_entry_to_result(p.today, clock)
         IN /\ payload' = p
            /\ disk' = p
            /\ cached_result' = result
            /\ loops' = [loops EXCEPT ![c].pc = "posting",
                                      ![c].moment = NoneVal,
                                      ![c].setting.ended = p.autopost_time,
                                      ![c].result = result]
    /\ NoReturn
    /\ UNCHANGED << clock, lock, task, calls, autopost_event >>

\* The refresh of the loop's get_today_holidays fails.
QueryFail(c) ==
    /\ loops[c].pc = "querying"
    /\ LET result == failure_result(payload, loops[c].moment.day,
                                    loops[c].moment, clock)
       IN /\ cached_result' = result
          /\ loops' = [loops EXCEPT ![c].pc = "posting",
                                    ![c].moment = NoneVal,
                                    ![c].setting = NoneVal,
                                    ![c].result = result]
    /\ NoReturn
    /\ UNCHANGED << clock, payload, disk, lock, task, calls, autopost_event >>

set_original_chat_title(p, title) == [p EXCEPT !.original_chat_title = title]

set_autopost_message_id(p, chat_id, message_id) ==
    [p EXCEPT !.autopost_message_ids =
        [k \in DOMAIN p.autopost_message_ids \cup {chat_id} |->
            IF k = chat_id THEN message_id ELSE p.autopost_message_ids[k]]]

\* The title step of the announcement: with the chat read, a missing or
\* changed original title is replaced by the cleaned current one.
payload_after_title(p, chat_read, cleaned) ==
    IF chat_read /\ (p.original_chat_title \in {NoneVal, Str(<< >>)}
                     \/ (cleaned # Str(<< >>) /\ cleaned # p.original_chat_title))
    THEN set_original_chat_title(p, cleaned)
    ELSE p

\* The announcement: title, message, pin and the stored message id.  A failed
\* send skips the rest of the cycle.
AnnounceWith(c, chat_read, cleaned, sent) ==
    /\ loops[c].pc = "posting"
    /\ LET titled == payload_after_title(payload, chat_read, cleaned)
           p == IF sent
                THEN set_autopost_message_id(titled, c, SentMessageId)
                ELSE titled
       IN /\ payload' = p
          /\ disk' = IF p # payload THEN p ELSE disk
    /\ loops' = [loops EXCEPT ![c].pc = "start", ![c].result = NoneVal,
                              ![c].setting = NoneVal]
    /\ NoReturn
    /\ UNCHANGED << clock, cached_result, lock, task, calls, autopost_event >>

Announce(c) ==
    \E chat_read \in BOOLEAN, cleaned \in CleanedTitles, sent \in BOOLEAN :
        AnnounceWith(c, chat_read, cleaned, sent)

\* An exception no inner handler catches: `except Exception` of the loop logs
\* it and sleeps.
CycleRaises(c) ==
    /\ loops[c].pc = "posting"
    /\ loops' = [loops EXCEPT ![c].pc = "error_pause", ![c].result = NoneVal,
                              ![c].setting = NoneVal]
    /\ NoReturn
    /\ UNCHANGED << clock, payload, disk, cached_result, lock, task, calls,
                    autopost_event >>

\* asyncio.sleep(60) returns: the next cycle starts.
PauseEnds(c) ==
    /\ loops[c].pc = "error_pause"
    /\ loops' = [loops EXCEPT ![c].pc = "start"]
    /\ NoReturn
    /\ UNCHANGED << clock, payload, disk, cached_result, lock, task, calls,
                    autopost_event >>

\* The bug of an event whose set() wakes one waiter only.
Notified_OneWaiter(ls) ==
    LET waiting == { c \in DOMAIN ls : ls[c].pc = "waiting" }
    IN [c \in DOMAIN ls |-> IF waiting # {} /\ c = CHOOSE w \in waiting : TRUE
                            THEN [ls[c] EXCEPT !.pc = "signalled"]
                            ELSE ls[c]]

\* _notify_autopost_update: the event is set and every loop waiting on it is
\* woken.
Notified(ls) ==
    [c \in DOMAIN ls |-> IF ls[c].pc = "waiting"
                     THEN [ls[c] EXCEPT !.pc = "signalled"]
                     ELSE ls[c]]

UpdateReturns(value, ret) ==
    last' = [who |-> {"update_autopost_time"},
             call |-> [NewTask EXCEPT !.op = "update_autopost_time",
                                      !.pc = "done",
                                      !.target = value,
                                      !.ret = ret,
                                      !.failed = (ret = ValueError)]]

\* The bug of storing the default time in place of a rejected value.
update_autopost_time_Coerce(value) ==
    LET normalized == IF _normalize_time(value) = ValueError
                      THEN Str(DefaultAutopostTime)
                      ELSE _normalize_time(value)
    IN IF payload.autopost_time = normalized.value
       THEN /\ UpdateReturns(value, normalized)
            /\ UNCHANGED << payload, disk, autopost_event, loops >>
       ELSE /\ payload' = [payload EXCEPT !.autopost_time = normalized.value]
            /\ disk' = payload'
            /\ autopost_event' = TRUE
            /\ loops' = Notified(loops)
            /\ UpdateReturns(value, normalized)

update_autopost_time(value) ==
    LET normalized == _normalize_time(value)
    IN IF normalized = ValueError
       THEN /\ UpdateReturns(value, ValueError)
            /\ UNCHANGED << payload, disk, autopost_event, loops >>
       ELSE IF payload.autopost_time = normalized.value
       THEN /\ UpdateReturns(value, normalized)
            /\ UNCHANGED << payload, disk, autopost_event, loops >>
       ELSE /\ payload' = [payload EXCEPT !.autopost_time = normalized.value]
            /\ disk' = payload'
            /\ autopost_event' = TRUE
            /\ loops' = Notified(loops)
            /\ UpdateReturns(value, normalized)

UpdateAutopostTime ==
    /\ \E value \in UpdateValues : update_autopost_time(value)
    /\ UNCHANGED << clock, cached_result, lock, task, calls >>

TickScheduler ==
    /\ TickOver(SchedPoints)
    /\ NoReturn
    /\ UNCHANGED << payload, disk, cached_result, lock, task, calls,
                    autopost_event, loops >>

NextScheduler ==
    \/ \E c \in Chats : StartCycle(c)
    \/ \E c \in Chats : TimerFires(c)
    \/ \E c \in Chats : ResumeSignalled(c)
    \/ \E c \in Chats : ResumeTimedOut(c)
    \/ \E c \in Chats : QueryOk(c)
    \/ \E c \in Chats : QueryFail(c)
    \/ \E c \in Chats : Announce(c)
    \/ \E c \in Chats : CycleRaises(c)
    \/ \E c \in Chats : PauseEnds(c)
    \/ UpdateAutopostTime
    \/ TickScheduler

SpecScheduler == InitScheduler /\ [][NextScheduler]_vars

\* The event loop resumes every task that can run, every fetch and every
\* Telegram call returns or raises, and the sleep ends; the clock and the
\* callers of update_autopost_time owe nothing.
LoopStep(c) ==
    \/ StartCycle(c)
    \/ ResumeSignalled(c)
    \/ ResumeTimedOut(c)
    \/ QueryOk(c)
    \/ QueryFail(c)
    \/ Announce(c)
    \/ CycleRaises(c)
    \/ PauseEnds(c)

FairScheduler == \A c \in Chats : WF_vars(LoopStep(c))

SpecSchedulerFair == SpecScheduler /\ FairScheduler

\* ---------------------------------------------------------- shared signal
\* main starts one autopost_loop per chat and hands every loop the one
\* asyncio.Event it registered (main.py:204-209).
SharedChats == { "chat", "chat2" }

SharedUpdateValues == { << " ", "0", ":", "0" >>, << "2", "0", ":", "3", "0" >> }

InitShared ==
    /\ clock = Moment(0, SchedPoints[1])
    /\ payload = _default_payload(DefaultAutopostTime, clock)
    /\ disk = payload
    /\ cached_result = _payload_entry_to_result(payload.today, clock)
    /\ lock = {}
    /\ task = << >>
    /\ calls = 0
    /\ last = [who |-> {}, call |-> NewTask]
    /\ autopost_event = FALSE
    /\ loops = [c \in SharedChats |-> NewLoop]

\* The announcement with get_chat and send_message failing: nothing is
\* stored.
AnnounceNothingStored(c) ==
    \E cleaned \in CleanedTitles : AnnounceWith(c, FALSE, cleaned, FALSE)

UpdateShared ==
    /\ \E value \in SharedUpdateValues : update_autopost_time(value)
    /\ UNCHANGED << clock, cached_result, lock, task, calls >>

SharedLoopStep(c) ==
    \/ StartCycle(c)
    \/ ResumeSignalled(c)
    \/ ResumeTimedOut(c)
    \/ QueryFail(c)
    \/ AnnounceNothingStored(c)
    \/ CycleRaises(c)
    \/ PauseEnds(c)

NextShared ==
    \/ \E c \in SharedChats : StartCycle(c)
    \/ \E c \in SharedChats : TimerFires(c)
    \/ \E c \in SharedChats : ResumeSignalled(c)
    \/ \E c \in SharedChats : ResumeTimedOut(c)
    \/ \E c \in SharedChats : QueryFail(c)
    \/ \E c \in SharedChats : AnnounceNothingStored(c)
    \/ \E c \in SharedChats : CycleRaises(c)
    \/ \E c \in SharedChats : PauseEnds(c)
    \/ UpdateShared
    \/ TickScheduler

FairShared == \A c \in SharedChats : WF_vars(SharedLoopStep(c))

SpecShared == InitShared /\ [][NextShared]_vars /\ FairShared

\* ------------------------------------------------------- time validation
\* Every string of at most MaxLen characters of TimeChars.
TimeStrings == UNION { [1..n -> TimeChars] : n \in 0..MaxLen }

\* _normalize_time is about to be called with some string.
InitTime ==
    /\ clock = Moment(0, CoarsePoints[1])
    /\ payload = _default_payload(DefaultAutopostTime, clock)
    /\ disk = payload
    /\ cached_result = _payload_entry_to_result(payload.today, clock)
    /\ lock = {}
    /\ task = << >>
    /\ calls = 0
    /\ autopost_event = FALSE
    /\ loops = [c \in Chats |-> NewLoop]
    /\ \E value \in TimeStrings :
         last = [who |-> {},
                 call |-> [NewTask EXCEPT !.op = "_normalize_time", !.target = value]]

NormalizeTime ==
    /\ last.call.op = "_normalize_time"
    /\ last.call.pc = "new"
    /\ last' = [who |-> {"_normalize_time"},
                call |-> [last.call EXCEPT !.pc = "done",
                                           !.ret = _normalize_time(last.call.target),
                                           !.failed = (_normalize_time(last.call.target)
                                                         = ValueError)]]
    /\ UNCHANGED << clock, payload, disk, cached_result, lock, task, calls,
                    autopost_event, loops >>

NextTime == NormalizeTime

SpecTime == InitTime /\ [][NextTime]_vars

\* ------------------------------------------------- autopost selection
\* Characters are written in ASCII: "CYR_x" is the Cyrillic capital letter
\* and "cyr_x" the Cyrillic small letter transliterated x.
LowerOf ==
    [c \in { "R", "U", "S", "I", "A", "D", "CYR_R", "CYR_O", "CYR_S", "CYR_I", "CYR_YA" } |->
        CASE c = "R" -> "r" [] c = "U" -> "u" [] c = "S" -> "s" [] c = "I" -> "i"
          [] c = "A" -> "a" [] c = "D" -> "d"
          [] c = "CYR_R" -> "cyr_r" [] c = "CYR_O" -> "cyr_o" [] c = "CYR_S" -> "cyr_s"
          [] c = "CYR_I" -> "cyr_i" [] c = "CYR_YA" -> "cyr_ya"]

\* str.lower(): letters with a small form take it, every other character stays.
lower(h) == [i \in 1..Len(h) |-> IF h[i] \in DOMAIN LowerOf THEN LowerOf[h[i]] ELSE h[i]]

\* needle in h
Contains(h, needle) ==
    \E i \in 1..(Len(h) - Len(needle) + 1) : SubSeq(h, i, i + Len(needle) - 1) = needle

NeedleCyrillic == << "cyr_r", "cyr_o", "cyr_s", "cyr_s", "cyr_i", "cyr_ya" >>
NeedleLatin == << "r", "u", "s", "s", "i", "a" >>

\* Holiday names: one that names no country, the country in Latin letters in
\* mixed case and in capitals, the country in Cyrillic in the nominative (first
\* letter capital, and all capitals), and in the genitive, which does not
\* contain the nominative spelling.
HolidayNames ==
    { << "D", "a", "y" >>,
      << "R", "u", "s", "s", "i", "a", " ", "D", "a", "y" >>,
      << "D", " ", "R", "U", "S", "S", "I", "A" >>,
      << "CYR_R", "cyr_o", "cyr_s", "cyr_s", "cyr_i", "cyr_ya" >>,
      << "d", " ", "CYR_R", "CYR_O", "CYR_S", "CYR_S", "CYR_I", "CYR_YA" >>,
      << "d", " ", "CYR_R", "cyr_o", "cyr_s", "cyr_s", "cyr_i", "cyr_i" >> }

\* The bug of a selection that knows the Latin spelling only.
select_autopost_holiday_LatinOnly(holidays) ==
    IF holidays = << >> THEN NoneVal
    ELSE LET without_russia == SelectSeq(holidays, LAMBDA h : ~Contains(lower(h), NeedleLatin))
         IN  IF without_russia # << >> THEN Str(without_russia[1]) ELSE Str(holidays[1])

select_autopost_holiday(holidays) ==
    IF holidays = << >> THEN NoneVal
    ELSE LET without_russia ==
                 SelectSeq(holidays, LAMBDA h : /\ ~Contains(lower(h), NeedleCyrillic)
                                                /\ ~Contains(lower(h), NeedleLatin))
         IN  IF without_russia # << >> THEN Str(without_russia[1]) ELSE Str(holidays[1])

\* Every sequence of at most MaxNames holiday names.
NameLists == UNION { [1..n -> HolidayNames] : n \in 0..MaxNames }

\* select_autopost_holiday is about to be called with some sequence.
InitSelect ==
    /\ clock = Moment(0, CoarsePoints[1])
    /\ payload = _default_payload(DefaultAutopostTime, clock)
    /\ disk = payload
    /\ cached_result = _payload_entry_to_result(payload.today, clock)
    /\ lock = {}
    /\ task = << >>
    /\ calls = 0
    /\ autopost_event = FALSE
    /\ loops = [c \in Chats |-> NewLoop]
    /\ \E holidays \in NameLists :
         last = [who |-> {},
                 call |-> [NewTask EXCEPT !.op = "select_autopost_holiday",
                                          !.target = holidays]]

SelectAutopostHoliday ==
    /\ last.call.op = "select_autopost_holiday"
    /\ last.call.pc = "new"
    /\ last' = [who |-> {"select_autopost_holiday"},
                call |-> [last.call EXCEPT !.pc = "done",
                                           !.ret = select_autopost_holiday(last.call.target)]]
    /\ UNCHANGED << clock, payload, disk, cached_result, lock, task, calls,
                    autopost_event, loops >>

NextSelect == SelectAutopostHoliday

SpecSelect == InitSelect /\ [][NextSelect]_vars

\* ------------------------------------------------------------ chat title
\* The cycle of autopost_loop from the result of get_today_holidays to the
\* end of the announcement (main.py:73-161), with the emoji and the title.
\* The function's local variables live as long as the coroutine: a local
\* assigned in one pass of the while loop is still bound in the next.
Unbound == [kind |-> "unbound"]

\* The generic emoji of main.py:85, and one a fragment gives.
PartyEmoji == "party"
FamilyEmoji == "family"

\* FRAGMENTS: ordered pairs of a fragment and its emoji.
FRAGMENTS ==
    << [frag |-> << "d", "a", "d" >>, emoji |-> FamilyEmoji],
       [frag |-> << "a", "i", "r" >>, emoji |-> PartyEmoji] >>

\* The emoji of the first fragment found in the lower-cased name, or None.
emoji_for_holiday(name) ==
    IF name = << >> THEN NoneVal
    ELSE LET low == lower(name)
             found == { i \in 1..Len(FRAGMENTS) : Contains(low, FRAGMENTS[i].frag) }
         IN  IF found = {} THEN NoneVal
             ELSE Str(FRAGMENTS[CHOOSE i \in found : \A j \in found : i <= j].emoji)

\* Names: one with its own emoji, one with the generic emoji, one with none.
DadsDay == << "D", "a", "d", "s" >>
AirDay == << "A", "i", "r" >>
SunDay == << "s", "u", "n" >>

\* The holiday lists a result of get_today_holidays may carry.
TitleHolidayLists ==
    { << >>, << DadsDay >>, << AirDay >>, << SunDay >>, << SunDay, DadsDay >>,
      << AirDay, DadsDay >> }

\* Lines 78-93: the first holiday whose emoji is present and not the generic
\* one; else the first holiday with its emoji or the generic one.
select_for_autopost(holidays) ==
    LET special == { i \in 1..Len(holidays) :
                        /\ emoji_for_holiday(holidays[i]) # NoneVal
                        /\ emoji_for_holiday(holidays[i]) # Str(PartyEmoji) }
    IN  IF special # {}
        THEN LET i == CHOOSE k \in special : \A j \in special : k <= j
             IN  [selected |-> holidays[i], selected_emoji |-> emoji_for_holiday(holidays[i])]
        ELSE [selected |-> holidays[1],
              selected_emoji |-> IF emoji_for_holiday(holidays[1]) # NoneVal
                                 THEN emoji_for_holiday(holidays[1]) ELSE Str(PartyEmoji)]

\* locals().get('selected_emoji')
locals_get(local) == IF local = Unbound THEN NoneVal ELSE local

\* An autopost_loop task whose wait is about to time out, and its chat:
\* `title_emoji` is the prefix of the chat's title at Telegram, `applied` what
\* this cycle passed to set_chat_title.
NewTitleLoop ==
    [pc |-> "start", result |-> NoneVal, text |-> NoneVal,
     selected |-> Unbound, selected_emoji |-> Unbound,
     title_emoji |-> NoneVal, applied |-> NoneVal]

InitTitle ==
    /\ clock = Moment(0, SchedPoints[1])
    /\ payload = _default_payload(DefaultAutopostTime, clock)
    /\ disk = payload
    /\ cached_result = _payload_entry_to_result(payload.today, clock)
    /\ lock = {}
    /\ task = << >>
    /\ calls = 0
    /\ last = [who |-> {}, call |-> NewTask]
    /\ autopost_event = FALSE
    /\ loops = [c \in Chats |-> NewTitleLoop]

\* The wait times out and get_today_holidays returns a result for today; the
\* text is built, and with holidays the selection is assigned (lines 73-97).
ResultArrives(c) ==
    /\ loops[c].pc = "start"
    /\ \E holidays \in TitleHolidayLists :
         LET result == _payload_entry_to_result(_serialize_day(clock.day, holidays, clock), clock)
         IN  loops' = [loops EXCEPT ![c] =
                 IF result.holidays # << >>
                 THEN [@ EXCEPT !.pc = "posting", !.result = result, !.applied = NoneVal,
                                !.selected = Str(select_for_autopost(holidays).selected),
                                !.selected_emoji = select_for_autopost(holidays).selected_emoji,
                                !.text = [emoji |-> select_for_autopost(holidays).selected_emoji,
                                          holiday |-> Str(select_for_autopost(holidays).selected),
                                          notice |-> NoError]]
                 ELSE [@ EXCEPT !.pc = "posting", !.result = result, !.applied = NoneVal,
                                !.text = [emoji |-> NoneVal, holiday |-> NoneVal,
                                          notice |-> result.error]]]
    /\ NoReturn
    /\ UNCHANGED << clock, payload, disk, cached_result, lock, task, calls, autopost_event >>

\* Lines 116-140: get_chat raises, or returns and the original title is
\* stored if missing or changed; then, with an emoji in the locals,
\* set_chat_title is called and returns or raises.
TitleStep(c) ==
    /\ loops[c].pc = "posting"
    /\ \E chat_read \in BOOLEAN, cleaned \in CleanedTitles, title_set \in BOOLEAN :
         LET new_emoji == locals_get(loops[c].selected_emoji)
             calls_set == chat_read /\ new_emoji # NoneVal
         IN  /\ payload' = payload_after_title(payload, chat_read, cleaned)
             /\ disk' = IF payload' # payload THEN payload' ELSE disk
             /\ loops' = [loops EXCEPT
                             ![c].pc = "sending",
                             ![c].applied = IF calls_set THEN new_emoji ELSE NoneVal,
                             ![c].title_emoji = IF calls_set /\ title_set THEN new_emoji ELSE @]
    /\ NoReturn
    /\ UNCHANGED << clock, cached_result, lock, task, calls, autopost_event >>

\* Lines 142-159: the message is sent, pinned and its id stored; a failed
\* send ends the cycle.
SendStep(c) ==
    /\ loops[c].pc = "sending"
    /\ \E sent \in BOOLEAN :
         /\ payload' = IF sent THEN set_autopost_message_id(payload, c, SentMessageId)
                       ELSE payload
         /\ disk' = IF payload' # payload THEN payload' ELSE disk
    /\ loops' = [loops EXCEPT ![c].pc = "start"]
    /\ NoReturn
    /\ UNCHANGED << clock, cached_result, lock, task, calls, autopost_event >>

NextTitle ==
    \/ \E c \in Chats : ResultArrives(c)
    \/ \E c \in Chats : TitleStep(c)
    \/ \E c \in Chats : SendStep(c)
    \/ TickScheduler

SpecTitle == InitTitle /\ [][NextTitle]_vars

\* ------------------------------------------------------------------ load
\* The cache file as _load_or_init_payload finds it.  A JSON object is written
\* with every key of the payload, a key the object lacks holding Missing, and
\* JSON null is NoneVal.
Missing == [kind |-> "missing"]
Dict(items) == [kind |-> "dict", items |-> items]
JsonList == [kind |-> "list"]
JsonNumber(n) == [kind |-> "number", value |-> n]
Raises(error) == [kind |-> "raise", error |-> error]

\* bool(v) for the values of a key: None, "" and {} are false, and
\* dict.get gives None for a key the object lacks.
Truthy(v) == v \notin { Missing, NoneVal, Str(<< >>), Dict(<< >>) }

FileTimes == { Missing, Str(<< >>), Str(<< "2", "0", ":", "3", "0" >>) }
FileMoments == { Missing, Moment(0, CoarsePoints[1]) }
FileDays == { Missing, NoneVal, _serialize_day(0, << "A", "B" >>, Moment(0, CoarsePoints[1])) }
FileMessageIds == { Missing, NoneVal, JsonList, Dict(<< >>), Dict([c \in Chats |-> 5]) }
FileOldMessageIds == { Missing, NoneVal, JsonNumber(7) }
FileTitles == { Missing, Str(<< "T" >>) }

JsonObjects ==
    [kind : { "object" }, autopost_time : FileTimes, updated_at : FileMoments,
     today : FileDays, tomorrow : FileDays, autopost_message_ids : FileMessageIds,
     autopost_message_id : FileOldMessageIds, original_chat_title : FileTitles]

JsonFile(value) == [kind |-> "json", value |-> value]

\* No file; bytes that are not UTF-8; text that is not JSON; JSON that is not
\* an object (null, a list, a number); a JSON object.
CacheFiles ==
    { [kind |-> "absent"], [kind |-> "undecodable"], [kind |-> "invalid_json"] }
        \cup { JsonFile(v) : v \in { NoneVal, JsonList, JsonNumber(5) } \cup JsonObjects }

\* _default_payload, as the JSON object it is.
default_object(autopost_time, moment) ==
    [kind |-> "object", autopost_time |-> Str(autopost_time), updated_at |-> moment,
     today |-> _serialize_day(moment.day, << >>, moment),
     tomorrow |-> _serialize_day(moment.day + 1, << >>, moment),
     autopost_message_ids |-> Dict(<< >>), autopost_message_id |-> Missing,
     original_chat_title |-> Missing]

\* Lines 494-517: the keys a loaded object lacks are filled in.  The old
\* autopost_message_id moves into the mapping under the configured chat if
\* the configuration can be imported, and is dropped if not.
fill_payload(p, default_autopost_time, now, config_available) ==
    LET p1 == IF ~Truthy(p.autopost_time)
              THEN [p EXCEPT !.autopost_time = Str(default_autopost_time)] ELSE p
        p2 == IF ~Truthy(p1.today)
              THEN [p1 EXCEPT !.today = _serialize_day(now.day, << >>, now)] ELSE p1
        p3 == IF ~Truthy(p2.tomorrow)
              THEN [p2 EXCEPT !.tomorrow = _serialize_day(now.day + 1, << >>, now)] ELSE p2
        p4 == IF p3.autopost_message_id # Missing /\ p3.autopost_message_ids = Missing
              THEN [p3 EXCEPT !.autopost_message_ids =
                                  IF p3.autopost_message_id # NoneVal /\ config_available
                                  THEN Dict([c \in Chats |-> p3.autopost_message_id.value])
                                  ELSE Dict(<< >>),
                              !.autopost_message_id = Missing]
              ELSE p3
    IN  IF p4.autopost_message_ids = Missing
        THEN [p4 EXCEPT !.autopost_message_ids = Dict(<< >>)] ELSE p4

\* What the load returns (the payload, which it has written) or raises:
\* json.JSONDecodeError and OSError are caught, the UnicodeDecodeError of
\* read_text is not, and payload.get of a value that is no object raises
\* AttributeError.
_load_or_init_payload(file, default_autopost_time, now, config_available) ==
    IF file.kind \in { "absent", "invalid_json" }
    THEN fill_payload(default_object(default_autopost_time, now), default_autopost_time, now,
                      config_available)
    ELSE IF file.kind = "undecodable" THEN Raises("UnicodeDecodeError")
    ELSE IF file.value.kind # "object" THEN Raises("AttributeError")
    ELSE fill_payload(file.value, default_autopost_time, now, config_available)

\* The process starts: nothing is loaded, the file is whatever was left.
InitLoad ==
    /\ clock = Moment(0, CoarsePoints[1])
    /\ payload = NoneVal
    /\ disk \in CacheFiles
    /\ cached_result = NoneVal
    /\ lock = {}
    /\ task = << >>
    /\ calls = 0
    /\ autopost_event = FALSE
    /\ loops = [c \in Chats |-> NewLoop]
    /\ last = [who |-> {},
               call |-> [NewTask EXCEPT !.op = "initialize_holiday_cache", !.target = disk]]

\* initialize_holiday_cache returns: the payload is loaded and written, and
\* its `today` entry is stored as the cached result.
InitializeReturns ==
    /\ last.call.op = "initialize_holiday_cache"
    /\ last.call.pc = "new"
    /\ \E config_available \in BOOLEAN :
         \E p \in { _load_or_init_payload(disk, DefaultAutopostTime, clock, config_available) } :
            /\ p.kind = "object"
            /\ payload' = p
            /\ disk' = JsonFile(p)
            /\ cached_result' = _payload_entry_to_result(p.today, clock)
    /\ last' = [who |-> {"initialize_holiday_cache"},
                call |-> [last.call EXCEPT !.pc = "done"]]
    /\ UNCHANGED << clock, lock, task, calls, autopost_event, loops >>

\* initialize_holiday_cache raises what the load raises; the file is bound,
\* nothing is loaded and nothing is written.
InitializeRaises ==
    /\ last.call.op = "initialize_holiday_cache"
    /\ last.call.pc = "new"
    /\ \E config_available \in BOOLEAN :
         \E p \in { _load_or_init_payload(disk, DefaultAutopostTime, clock, config_available) } :
            /\ p.kind = "raise"
            /\ last' = [who |-> {"initialize_holiday_cache"},
                        call |-> [last.call EXCEPT !.pc = "done", !.failed = TRUE, !.ret = p]]
    /\ UNCHANGED << clock, payload, disk, cached_result, lock, task, calls,
                    autopost_event, loops >>

\* A later query, get_autopost_time: _ensure_payload loads again, with the
\* default "00:00", if nothing is loaded.
LaterQuery ==
    /\ last.call.pc = "done"
    /\ last.call.op = "initialize_holiday_cache"
    /\ \E config_available \in BOOLEAN :
         \E p \in { IF payload = NoneVal
                     THEN _load_or_init_payload(disk, << "0", "0", ":", "0", "0" >>, clock,
                                                config_available)
                     ELSE payload } :
            /\ payload' = IF p.kind = "object" THEN p ELSE payload
            /\ disk' = IF payload = NoneVal /\ p.kind = "object" THEN JsonFile(p) ELSE disk
            /\ last' = [who |-> {"get_autopost_time"},
                        call |-> [last.call EXCEPT !.op = "get_autopost_time",
                                                   !.failed = (p.kind = "raise"),
                                                   !.ret = IF p.kind = "raise" THEN p
                                                           ELSE p.autopost_time]]
    /\ UNCHANGED << clock, cached_result, lock, task, calls, autopost_event, loops >>

NextLoad == InitializeReturns \/ InitializeRaises \/ LaterQuery

SpecLoad == InitLoad /\ [][NextLoad]_vars

\* ------------------------------------------------------ anchor extraction
\* The markup reaches _HolidayAnchorParser as the calls HTMLParser.feed makes,
\* in document order: handle_starttag, handle_endtag and handle_data.
TargetDivId == "div_2025-1-1"

\* "/holidays/0/0/" in href
HolidayHref == "/holidays/0/0/1"
IsHolidayHref(href) == href = HolidayHref

\* Start tags: the target container, another container, a qualifying anchor,
\* an anchor to somewhere else.
StartTags ==
    { [tag |-> "div", id |-> TargetDivId, href |-> ""],
      [tag |-> "div", id |-> "other", href |-> ""],
      [tag |-> "a", id |-> "", href |-> HolidayHref],
      [tag |-> "a", id |-> "", href |-> "/about"] }

EndTags == { "div", "a" }

\* Text nodes: two names and white space.
TextNodes == { << "x" >>, << "y" >>, << " " >> }

\* _HolidayAnchorParser.__init__
NewParser ==
    [kind |-> "parser", inside_target |-> FALSE, target_depth |-> 0, capture |-> FALSE,
     buffer |-> << >>, holidays |-> << >>]

handle_starttag(p, t) ==
    IF t.tag = "div"
    THEN IF p.inside_target THEN [p EXCEPT !.target_depth = @ + 1]
         ELSE IF t.id = TargetDivId THEN [p EXCEPT !.inside_target = TRUE, !.target_depth = 1]
         ELSE p
    ELSE IF ~p.inside_target THEN p
    ELSE IF t.tag = "a" /\ IsHolidayHref(t.href) THEN [p EXCEPT !.capture = TRUE, !.buffer = << >>]
    ELSE p

handle_endtag(p, tag) ==
    IF p.inside_target /\ tag = "div"
    THEN IF p.target_depth - 1 <= 0
         THEN [p EXCEPT !.inside_target = FALSE, !.target_depth = 0]
         ELSE [p EXCEPT !.target_depth = @ - 1]
    ELSE IF tag = "a" /\ p.capture
    THEN LET text == strip(p.buffer)
         IN  [p EXCEPT !.holidays = IF text # << >> THEN Append(@, text) ELSE @,
                       !.capture = FALSE, !.buffer = << >>]
    ELSE p

\* The buffer is joined at the anchor's end; it is kept joined here.
handle_data(p, data) == IF p.capture THEN [p EXCEPT !.buffer = @ \o data] ELSE p

\* The parser of one feed: the calls made so far and the parser's fields.
Parsing == last.call.op = "feed"
Markup == last.call.target
Parser == last.call.ret

InitParse ==
    /\ clock = Moment(0, CoarsePoints[1])
    /\ payload = _default_payload(DefaultAutopostTime, clock)
    /\ disk = payload
    /\ cached_result = _payload_entry_to_result(payload.today, clock)
    /\ lock = {}
    /\ task = << >>
    /\ calls = 0
    /\ autopost_event = FALSE
    /\ loops = [c \in Chats |-> NewLoop]
    /\ last = [who |-> {},
               call |-> [NewTask EXCEPT !.op = "feed", !.target = << >>, !.ret = NewParser]]

Fed(event, p) ==
    /\ last' = [who |-> {event.kind},
                call |-> [last.call EXCEPT !.target = Append(@, event), !.ret = p]]
    /\ UNCHANGED << clock, payload, disk, cached_result, lock, task, calls,
                    autopost_event, loops >>

HandleStartTag ==
    /\ Parsing
    /\ Len(Markup) < MaxTokens
    /\ \E t \in StartTags : Fed([kind |-> "start", tag |-> t.tag, id |-> t.id, href |-> t.href, data |-> << >>],
                                  handle_starttag(Parser, t))

HandleEndTag ==
    /\ Parsing
    /\ Len(Markup) < MaxTokens
    /\ \E tag \in EndTags : Fed([kind |-> "end", tag |-> tag, id |-> "", href |-> "", data |-> << >>],
                                  handle_endtag(Parser, tag))

HandleData ==
    /\ Parsing
    /\ Len(Markup) < MaxTokens
    /\ \E data \in TextNodes : Fed([kind |-> "data", tag |-> "", id |-> "", href |-> "", data |-> data],
                                     handle_data(Parser, data))

NextParse == HandleStartTag \/ HandleEndTag \/ HandleData

SpecParse == InitParse /\ [][NextParse]_vars

\* ------------------------------------------------------------- properties
InRefresh(t) == task[t].pc \in {"fetch_today", "fetch_tomorrow"}

Refreshing == { t \in Running : InRefresh(t) }

\* The step in which the operation of task t returns or raises: at once, in
\* the step of the call, or after its downloads.
Returns(t) ==
    /\ last'.who = {t}
    /\ t \notin DOMAIN task'
    /\ \/ t \in Running
       \/ calls' = t /\ calls' # calls

\* The step that calls get_today_holidays(force_refresh=f); its task is the
\* one named calls'.
CallsGetToday(f) ==
    /\ calls' # calls
    /\ \/ /\ calls' \in DOMAIN task'
          /\ task'[calls'].op = "get_today"
          /\ task'[calls'].force = f
       \/ /\ last'.who = {calls'}
          /\ last'.call.op = "get_today"
          /\ last'.call.force = f

RefreshSucceeds(t) ==
    /\ t \in Running
    /\ task[t].pc = "fetch_tomorrow"
    /\ Returns(t)
    /\ ~last'.call.failed

RefreshFails(t) ==
    /\ t \in Running
    /\ InRefresh(t)
    /\ Returns(t)
    /\ last'.call.failed

MinuteOfDay(m) == m.hour * 60 + m.minute

InLookaheadWindow(m) == MinuteOfDay(m) \in (23 * 60 + 45)..(23 * 60 + 59)

Slot(p, k) == IF k = "today" THEN p.today ELSE p.tomorrow

\* C1: a successful refresh for `now` files now.date+1 under `today` and
\* now.date+2 under `tomorrow` when now is in 23:45..23:59, and now.date and
\* now.date+1 otherwise.
C1_RefreshDatesFollowTimeOfDay ==
    [][\A t \in CallIds :
         RefreshSucceeds(t) =>
           /\ payload'.today.date =
                task[t].moment.day + (IF InLookaheadWindow(task[t].moment) THEN 1 ELSE 0)
           /\ payload'.tomorrow.date =
                task[t].moment.day + (IF InLookaheadWindow(task[t].moment) THEN 2 ELSE 1)]_vars

C1_Witness ==
    /\ last.call.op = "refresh"
    /\ ~last.call.failed
    /\ last.call.moment.hour = 23 /\ last.call.moment.minute = 59
    /\ payload.updated_at = last.call.moment
    /\ payload.today.date = last.call.moment.day + 1

\* C2: at most one refresh is between taking the lock and releasing it, and
\* it is the holder of the lock.
C2_OneRefreshAtATime ==
    /\ Cardinality(Refreshing) <= 1
    /\ \A t \in Refreshing : lock = {t}

C2_Witness ==
    \E t, u \in Running :
        /\ task[t].pc = "fetch_tomorrow"
        /\ task[u].pc = "wait_lock"
        /\ task[u].op = "ensure"

\* C3 as stated: a caller that found a refresh in flight issues no fetch of
\* its own.
C3_WaiterIssuesNoFetch ==
    \A t \in Running : task[t].waited => task[t].nfetch = 0

\* C3: a caller that found a refresh in flight issues no fetch while it
\* waits, then holds the lock alone and issues its own two fetches, one after
\* the other; its refresh succeeds only after both.
C3_WaiterRefreshesForItself ==
    /\ \A t \in Running : task[t].pc = "wait_lock" => task[t].nfetch = 0
    /\ \A t \in Refreshing :
         task[t].waited =>
            /\ lock = {t}
            /\ Refreshing = {t}
            /\ task[t].nfetch = IF task[t].pc = "fetch_today" THEN 1 ELSE 2
    /\ (last.call.waited /\ ~last.call.failed) => last.call.nfetch = 2

C3_Witness ==
    /\ last.call.op = "get_today"
    /\ last.call.waited
    /\ ~last.call.failed
    /\ last.call.nfetch = 2

\* C4: while a refresh has not succeeded the payload and the file do not
\* change, and when one of its fetches fails the failure leaves the refresh
\* and both slots and updated_at are what they were when it took the lock.
C4_FailedRefreshChangesNothing ==
    [][\A t \in Running :
         /\ (InRefresh(t) /\ t \in DOMAIN task' /\ InRefresh(t)') =>
              (payload' = payload /\ disk' = disk)
         /\ RefreshFails(t) =>
              /\ payload' = payload
              /\ disk' = disk
              /\ Slots(payload') = task[t].snap
              /\ task[t].op # "get_today" => last'.call.ret = Raised]_vars

C4_Witness ==
    /\ last.call.failed
    /\ last.call.op = "refresh"
    /\ last.call.nfetch = 2
    /\ last.call.ret = Raised

\* C5: get_today_holidays without force_refresh returns the cached entry at
\* once and without a fetch exactly when a slot holds now's date with a
\* non-empty list; in every other case it starts a refresh.
C5_FastPathExactlyOnNonEmptyHit ==
    [][\A f \in BOOLEAN :
         CallsGetToday(f) =>
           IF ~f /\ \E k \in {"today", "tomorrow"} :
                       /\ Slot(payload, k).date = clock.day
                       /\ Slot(payload, k).holidays # <<>>
           THEN /\ Returns(calls')
                /\ last'.call.nfetch = 0
                /\ last'.call.ret.kind = "result"
                /\ last'.call.ret.date = clock.day
                /\ \E k \in {"today", "tomorrow"} :
                       /\ Slot(payload, k).date = clock.day
                       /\ Slot(payload, k).holidays = last'.call.ret.holidays
           ELSE /\ calls' \in DOMAIN task'
                /\ task'[calls'].pc \in {"wait_lock", "fetch_today"}]_vars

C5_Witness ==
    /\ last.call.op = "get_today"
    /\ ~last.call.force
    /\ last.call.nfetch = 0
    /\ last.call.ret.kind = "result"
    /\ last.call.ret.holidays # <<>>
    /\ last.call.ret.error = NoError

\* C6: when the refresh of get_today_holidays fails and a slot holds now's
\* date with a non-empty list, the call returns that entry's date and
\* holidays with the `could not update` notice.
C6_FailureFallsBackToCachedEntry ==
    [][\A t \in Running :
         (task[t].op = "get_today" /\ RefreshFails(t)) =>
           \A k \in {"today", "tomorrow"} :
              (Slot(payload, k).date = task[t].moment.day
                 /\ Slot(payload, k).holidays # <<>>) =>
                /\ last'.call.ret.kind = "result"
                /\ last'.call.ret.date = task[t].moment.day
                /\ last'.call.ret.holidays = Slot(payload, k).holidays
                /\ last'.call.ret.error = ErrStale]_vars

C6_Witness ==
    /\ last.call.op = "get_today"
    /\ last.call.failed
    /\ last.call.ret.kind = "result"
    /\ last.call.ret.holidays # <<>>
    /\ last.call.ret.error = ErrStale

\* C7: with the store initialised from no cache file (the payload is the
\* default one), a get_today_holidays whose refresh fails returns an empty
\* result for now's date with the `could not retrieve` notice.
C7_NoFileFailureGivesNoDataNotice ==
    [][\A t \in Running :
         (/\ payload = _default_payload(DefaultAutopostTime, payload.updated_at)
          /\ task[t].op = "get_today"
          /\ RefreshFails(t)) =>
           /\ last'.call.ret.kind = "result"
           /\ last'.call.ret.date = task[t].moment.day
           /\ last'.call.ret.holidays = <<>>
           /\ last'.call.ret.error = ErrNoData]_vars

\* C8: when get_today_holidays returns the synthetic empty result, the
\* payload's `today` slot holds it, and a lookup of now's date finds it.
C8_SyntheticResultIsPersisted ==
    [][\A t \in Running :
         (/\ task[t].op = "get_today"
          /\ RefreshFails(t)
          /\ last'.call.ret.kind = "result"
          /\ last'.call.ret.error = ErrNoData) =>
           /\ payload'.today.date = task[t].moment.day
           /\ get_cached_holiday_result(payload', task[t].moment.day, clock').kind = "result"]_vars

\* C9: get_today_holidays returns a result whatever the refresh does; no
\* fetch failure leaves it as an exception.
C9_GetTodayNeverRaises ==
    last.call.op = "get_today" => last.call.ret.kind = "result"

C9_Witness ==
    /\ last.call.op = "get_today"
    /\ last.call.force
    /\ last.call.failed
    /\ last.call.nfetch = 1
    /\ last.call.ret.kind = "result"

\* C10: once a refresh made in 23:45..23:59 of day D has filed a non-empty
\* list for D+1, a get_today_holidays without force_refresh on day D+1
\* returns that list from the cache and fetches nothing.
C10_LookaheadServesNextDay ==
    [][(/\ CallsGetToday(FALSE)
        /\ InLookaheadWindow(payload.updated_at)
        /\ clock.day = payload.updated_at.day + 1
        /\ payload.today.date = clock.day
        /\ payload.today.fetched_at = payload.updated_at
        /\ payload.today.holidays # <<>>) =>
          /\ Returns(calls')
          /\ last'.call.nfetch = 0
          /\ last'.call.ret.kind = "result"
          /\ last'.call.ret.date = clock.day
          /\ last'.call.ret.holidays = payload.today.holidays
          /\ payload' = payload]_vars

C10_Witness ==
    /\ last.call.op = "get_today"
    /\ ~last.call.force
    /\ last.call.nfetch = 0
    /\ last.call.ret.kind = "result"
    /\ payload.updated_at.day >= 0
    /\ InLookaheadWindow(payload.updated_at)
    /\ last.call.moment.day = payload.updated_at.day + 1
    /\ last.call.ret.date = last.call.moment.day
    /\ last.call.ret.fetched_at = payload.updated_at
    /\ last.call.ret.holidays # <<>>

\* The calendar dates a caller may ask for.
DateRange == (-2)..(MaxDay + 3)

\* C11: get_cached_holiday_result(d) returns the entry whose stored date is d,
\* from whichever slot holds it, and nothing exactly when neither slot's
\* stored date is d.
C11_LookupIsByStoredDate ==
    \A d \in DateRange :
        LET r == get_cached_holiday_result(payload, d, clock)
        IN /\ r = NoneVal <=> (payload.today.date # d /\ payload.tomorrow.date # d)
           /\ \A k \in {"today", "tomorrow"} :
                Slot(payload, k).date = d =>
                   /\ r.kind = "result"
                   /\ r.date = d
                   /\ r.holidays = Slot(payload, k).holidays
                   /\ r.fetched_at = Slot(payload, k).fetched_at

C11_Witness ==
    /\ last.call.op = "ensure"
    /\ last.call.nfetch = 0
    /\ last.call.ret.kind = "result"
    /\ last.call.ret.date = last.call.moment.day
    /\ payload.tomorrow.date = last.call.ret.date
    /\ payload.today.date # last.call.ret.date
    /\ last.call.ret.holidays = payload.tomorrow.holidays
    /\ last.call.ret.holidays # <<>>

\* The step that calls ensure_holidays_for_date(d); its task is the one named
\* calls'.
CallsEnsure(d) ==
    /\ calls' # calls
    /\ \/ /\ calls' \in DOMAIN task'
          /\ task'[calls'].op = "ensure"
          /\ task'[calls'].target = d
       \/ /\ last'.who = {calls'}
          /\ last'.call.op = "ensure"
          /\ last'.call.target = d

\* C12: ensure_holidays_for_date(d) for a date that is in no slot and is
\* neither now's date nor the next one issues one fetch for d, takes no lock,
\* and neither its call nor its return (a result for d, or nothing when the
\* fetch fails) changes the payload or the file.
C12_DirectFetchLeavesCacheAlone ==
    [][/\ \A d \in DateRange :
            (/\ CallsEnsure(d)
             /\ payload.today.date # d /\ payload.tomorrow.date # d
             /\ d # clock.day /\ d # clock.day + 1) =>
               /\ calls' \in DOMAIN task'
               /\ task'[calls'].pc = "fetch_direct"
               /\ task'[calls'].nfetch = 1
               /\ payload' = payload /\ disk' = disk /\ lock' = lock
       /\ \A t \in Running :
            (task[t].pc = "fetch_direct" /\ Returns(t)) =>
               /\ payload' = payload /\ disk' = disk /\ lock' = lock
               /\ last'.call.nfetch = 1
               /\ IF last'.call.failed
                  THEN last'.call.ret = NoneVal
                  ELSE /\ last'.call.ret.kind = "result"
                       /\ last'.call.ret.date = task[t].target]_vars

C12_Witness ==
    /\ last.call.op = "ensure"
    /\ last.call.target = last.call.moment.day + 3
    /\ last.call.nfetch = 1
    /\ ~last.call.failed
    /\ last.call.ret.kind = "result"
    /\ last.call.ret.date = last.call.target
    /\ payload.today.date # last.call.target
    /\ payload.tomorrow.date # last.call.target
    /\ disk = payload

ErrorSet(r) == r.error # NoError

\* C13 as stated: every result an operation returns has `error` set exactly
\* when its holidays are empty.
C13_ErrorIffEmpty ==
    last.call.ret.kind = "result" =>
        (ErrorSet(last.call.ret) <=> last.call.ret.holidays = <<>>)

\* C13: a result built from a cache entry or from a fetch has `error` set
\* exactly when its holidays are empty; the result get_today_holidays returns
\* after a failed refresh always has `error` set: the `could not update`
\* notice on the cached entry, empty or not, or the `could not retrieve`
\* notice on the synthetic empty result.
C13_ErrorIffEmptyUnlessStale ==
    /\ \A d \in DateRange :
         LET r == get_cached_holiday_result(payload, d, clock)
         IN r.kind = "result" => (ErrorSet(r) <=> r.holidays = <<>>)
    /\ last.call.ret.kind = "result" =>
         IF last.call.op = "get_today" /\ last.call.failed
         THEN /\ last.call.ret.error \in {ErrStale, ErrNoData}
              /\ last.call.ret.error = ErrNoData => last.call.ret.holidays = <<>>
         ELSE ErrorSet(last.call.ret) <=> last.call.ret.holidays = <<>>

C13_Witness ==
    /\ last.call.op = "get_today"
    /\ last.call.force
    /\ last.call.failed
    /\ last.call.nfetch = 2
    /\ last.call.ret.kind = "result"
    /\ last.call.ret.holidays # <<>>
    /\ last.call.ret.error = ErrStale

\* The step that starts a cache read for date d: ensure_holidays_for_date(d),
\* or get_today_holidays without force_refresh when d is now's date.
ReadsCache(d) ==
    \/ CallsEnsure(d)
    \/ CallsGetToday(FALSE) /\ d = clock.day

\* C14: while a refresh is between taking the lock and its write, both slots
\* and updated_at are those it found; a read that starts meanwhile and finds
\* its date answers in the same step, from that payload, without the lock;
\* and the step that ends the refresh replaces both slots and updated_at
\* together.
C14_ReadSeesWholePayload ==
    [][\A t \in Refreshing :
         /\ Slots(payload) = task[t].snap
         /\ \A d \in DateRange :
              (/\ ReadsCache(d)
               /\ \E k \in {"today", "tomorrow"} :
                     /\ task[t].snap[k].date = d
                     /\ task[t].snap[k].holidays # <<>>) =>
                 /\ Returns(calls')
                 /\ lock' = lock
                 /\ InRefresh(t)'
                 /\ last'.call.ret.kind = "result"
                 /\ \E k \in {"today", "tomorrow"} :
                       /\ task[t].snap[k].date = d
                       /\ last'.call.ret.holidays = task[t].snap[k].holidays
                       /\ last'.call.ret.fetched_at = task[t].snap[k].fetched_at
         /\ RefreshSucceeds(t) =>
              /\ payload'.today.fetched_at = task[t].moment
              /\ payload'.tomorrow.fetched_at = task[t].moment
              /\ payload'.updated_at = task[t].moment
              /\ disk' = payload']_vars

C14_Witness ==
    /\ \E t \in Running : task[t].pc = "fetch_tomorrow"
    /\ last.who # {}
    /\ last.call.op = "ensure"
    /\ last.call.nfetch = 0
    /\ ~last.call.waited
    /\ last.call.ret.kind = "result"
    /\ last.call.ret.holidays # <<>>

\* The time of day of the setting, in minutes, read off its two fields.
SettingMinutes(autopost_time) ==
    LET hm == parse_autopost_time(autopost_time)
    IN hm.hour * 60 + hm.minute

\* The step in which loop c computes its fire instant and reaches the wait.
ComputesFireInstant(c) ==
    /\ loops[c].pc = "start"
    /\ loops'[c].pc \in {"waiting", "signalled"}

\* C15: the fire instant a cycle computes is the setting's HH:MM on now's
\* date when that is strictly later than now and the same HH:MM on the next
\* date otherwise, so it is strictly after now and at most 24 hours away.
C15_FireInstantIsNextOccurrence ==
    [][\A c \in Chats :
         ComputesFireInstant(c) =>
           LET now == Minutes(clock)
               today_target == clock.day * 1440 + SettingMinutes(payload.autopost_time)
               fire == Minutes(loops'[c].next_run)
           IN /\ fire = IF today_target > now THEN today_target ELSE today_target + 1440
              /\ fire > now
              /\ fire <= now + 1440
              /\ payload.autopost_time = << "2", "0", ":", "3", "0" >> =>
                    (loops'[c].next_run.hour = 20 /\ loops'[c].next_run.minute = 30)
              /\ payload.autopost_time = << "0", "0", ":", "0", "0" >> =>
                    (loops'[c].next_run.hour = 0 /\ loops'[c].next_run.minute = 0)]_vars

C15_Witness ==
    \E c \in Chats :
        /\ loops[c].pc = "waiting"
        /\ clock.hour = 20 /\ clock.minute = 30
        /\ payload.autopost_time = << "2", "0", ":", "3", "0" >>
        /\ loops[c].next_run = Moment(clock.day + 1, clock)

\* The step in which loop c starts an announcement.
StartsAnnouncement(c) ==
    /\ loops[c].pc \notin {"querying", "posting"}
    /\ loops'[c].pc \in {"querying", "posting"}

\* C16: a change signal raised while the loop waits wakes it; the woken loop
\* clears the signal and returns to the top of the loop, announcing nothing
\* and writing nothing; an announcement starts only in a loop whose wait timed
\* out at or after its fire instant, and each announcement is for a later
\* fire instant than the one before.
C16_SignalRecomputesTimeoutAnnounces ==
    [][\A c \in Chats :
         /\ (loops[c].pc = "waiting" /\ ~autopost_event /\ autopost_event') =>
               /\ loops'[c].pc = "signalled"
               /\ loops'[c].fired = loops[c].fired
         /\ (loops[c].pc = "signalled" /\ loops'[c] # loops[c]) =>
               /\ ~autopost_event'
               /\ loops'[c].pc = "start"
               /\ loops'[c].fired = loops[c].fired
               /\ payload' = payload /\ disk' = disk
         /\ (loops[c].pc # "timed_out" /\ loops'[c].pc = "timed_out") =>
               /\ loops[c].pc = "waiting"
               /\ ~autopost_event
               /\ Minutes(clock) >= Minutes(loops[c].next_run)
         /\ StartsAnnouncement(c) =>
               /\ loops[c].pc = "timed_out"
               /\ Minutes(clock) >= Minutes(loops[c].next_run)
               /\ loops'[c].fired = loops[c].next_run
               /\ loops[c].fired # NoneVal =>
                     Minutes(loops[c].fired) < Minutes(loops[c].next_run)]_vars

C16_Witness ==
    \E c \in Chats :
        /\ loops[c].pc = "waiting"
        /\ loops[c].woken = "signal"
        /\ loops[c].fired = NoneVal
        /\ ~autopost_event
        /\ payload.autopost_time = << "2", "0", ":", "3", "0" >>
        /\ disk.autopost_time = payload.autopost_time
        /\ loops[c].next_run.hour = 20 /\ loops[c].next_run.minute = 30

\* C17: after an error in a cycle the loop eventually computes a fire instant
\* again.
C17_ErrorThenFireInstantAgain ==
    \A c \in Chats :
        (loops[c].pc = "error_pause") ~> (loops[c].pc \in {"waiting", "signalled"})

\* A string of the shape H:MM, HH:M or HH:MM, of digits, with the hour at
\* most 23 and the minute at most 59.
WellFormedTime(v) ==
    \E i \in {2, 3} :
        /\ Len(v) > i /\ Len(v) <= i + 2
        /\ v[i] = ":"
        /\ << i - 1, Len(v) - i >> # << 1, 1 >>
        /\ \A j \in (1..Len(v)) \ {i} : IsDigit(v[j])
        /\ DecimalValue(SubSeq(v, 1, i - 1)) <= 23
        /\ DecimalValue(SubSeq(v, i + 1, Len(v))) <= 59

PaddedTime(v) ==
    LET i == CHOOSE j \in 1..Len(v) : v[j] = ":"
    IN Format02(DecimalValue(SubSeq(v, 1, i - 1))) \o << ":" >>
       \o Format02(DecimalValue(SubSeq(v, i + 1, Len(v))))

\* C18: _normalize_time returns the zero-padded HH:MM for every string of the
\* shape H:MM, HH:M or HH:MM in range, and fails for every other string.
C18_ValidationTotalAndExact ==
    (last.call.op = "_normalize_time" /\ last.call.pc = "done") =>
        IF WellFormedTime(last.call.target)
        THEN last.call.ret = Str(PaddedTime(last.call.target))
        ELSE last.call.ret = ValueError

\* The step in which update_autopost_time returns or raises.
UpdateStep == last'.who = {"update_autopost_time"}

\* C19: update_autopost_time with a value that fails validation raises and
\* changes nothing: payload, file, change signal and loops are as before; the
\* stored time changes only to the normalized value the call returns.
C19_RejectedUpdateChangesNothing ==
    [][UpdateStep =>
         /\ _normalize_time(last'.call.target) = ValueError =>
               /\ last'.call.ret = ValueError
               /\ last'.call.failed
         /\ last'.call.ret = ValueError =>
               /\ payload' = payload
               /\ disk' = disk
               /\ autopost_event' = autopost_event
               /\ loops' = loops
         /\ payload'.autopost_time # payload.autopost_time =>
               /\ last'.call.ret = Str(payload'.autopost_time)
               /\ last'.call.ret = _normalize_time(last'.call.target)
               /\ disk' = payload'
               /\ autopost_event']_vars

C19_Witness ==
    /\ last.who = {"update_autopost_time"}
    /\ last.call.target = << "2", "4", ":", "0", "0" >>
    /\ last.call.ret = ValueError
    /\ payload.autopost_time = << "2", "0", ":", "3", "0" >>
    /\ disk = payload

\* C20: the stored autopost_time is always a zero-padded HH:MM in range.
C20_StoredTimeIsValid ==
    /\ Len(payload.autopost_time) = 5
    /\ WellFormedTime(payload.autopost_time)

\* The step in which a get_today_holidays call returns.
GetTodayReturns(t) == Returns(t) /\ last'.call.op = "get_today"

\* C26: whatever branch it takes, get_today_holidays returns a result dated
\* now's calendar date, also when it refreshes during 23:45..23:59.
C26_GetTodayResultIsForNow ==
    [][\A t \in CallIds :
         GetTodayReturns(t) =>
           /\ last'.call.ret.kind = "result"
           /\ last'.call.ret.date = last'.call.moment.day]_vars

\* The slots a refresh made at `moment` with the two lists leaves.
WrittenByOneRefresh(p) ==
    /\ p.today.fetched_at = p.tomorrow.fetched_at
    /\ p.today.fetched_at = p.updated_at
    /\ p.tomorrow.date = p.today.date + 1
    /\ p.today.date = refresh_today_date(p.updated_at)

\* C27: a successful refresh leaves `today` and `tomorrow` written by that one
\* refresh, with one fetched_at and consecutive dates, in memory and in the
\* file; and no later step, of a failed, overlapping or waiting refresh or of
\* any query, breaks this.
C27_SlotsComeFromOneRefresh ==
    [][/\ (\E t \in CallIds : RefreshSucceeds(t)) =>
             /\ WrittenByOneRefresh(payload')
             /\ payload'.updated_at = last'.call.moment
             /\ disk' = payload'
       /\ (WrittenByOneRefresh(payload) /\ disk = payload) =>
             (WrittenByOneRefresh(payload') /\ disk' = payload')]_vars

\* A normal refresh of day 0 has written both slots while a lookahead refresh,
\* requested while the first held the lock, is at its downloads.
C27_Witness ==
    \E t \in Running :
        /\ InRefresh(t)
        /\ task[t].waited
        /\ InLookaheadWindow(task[t].moment)
        /\ payload.updated_at.day = 0
        /\ ~InLookaheadWindow(payload.updated_at)
        /\ payload.today.holidays # << >>
        /\ WrittenByOneRefresh(payload)
        /\ disk = payload

\* The lock is held by a refresh that is at its downloads, and by no other
\* task.
LockHeldByRefresh == \A t \in lock : t \in Running /\ InRefresh(t)

\* C30: the lock is free as soon as its refresh ends, by success or by a
\* failed download, and a waiting request then acquires it: every operation
\* that was called eventually returns or raises.
C30_LockReleasedAndRequestsComplete ==
    /\ []LockHeldByRefresh
    /\ [][\A t \in CallIds :
            (RefreshSucceeds(t) \/ RefreshFails(t)) => (t \in lock /\ lock' = {})]_vars
    /\ \A t \in CallIds : (t \in Running) ~> (t \notin Running)

\* The second of two requests waited for the lock while the refresh of a
\* get_today_holidays failed (its notice is what the cache holds), then took
\* the lock, reached its second download and ended, leaving the lock free.
C30_Witness ==
    /\ calls = 2
    /\ last.who = {2}
    /\ last.call.pc = "done"
    /\ last.call.op = "refresh"
    /\ last.call.waited
    /\ last.call.nfetch = 2
    /\ last.call.failed
    /\ cached_result.error \in {ErrStale, ErrNoData}
    /\ lock = {}
    /\ Running = {}

\* The step in which the refresh of loop c writes the payload.
RefreshWrites(c) ==
    /\ loops[c].pc = "querying"
    /\ loops'[c].pc = "posting"
    /\ payload' # payload

\* What a refresh leaves alone.
Settings(p) ==
    [autopost_time |-> p.autopost_time,
     autopost_message_ids |-> p.autopost_message_ids,
     original_chat_title |-> p.original_chat_title]

\* C28: the write of a refresh keeps the autopost_time stored by an
\* update_autopost_time that completed while the refresh was at its
\* downloads, in memory and in the file, and the write of an update keeps
\* the slots a refresh has written.
C28_UpdateAndRefreshKeepEachOther ==
    [][/\ \A c \in Chats :
            RefreshWrites(c) =>
              /\ Settings(payload') = Settings(payload)
              /\ disk' = payload'
              /\ loops'[c].setting.ended = payload.autopost_time
       /\ (UpdateStep /\ payload' # payload) =>
              /\ Slots(payload') = Slots(payload)
              /\ payload'.autopost_message_ids = payload.autopost_message_ids
              /\ payload'.original_chat_title = payload.original_chat_title
              /\ disk' = payload']_vars

\* The setting was 00:00 when the refresh began and 20:30 when it wrote, and
\* 20:30 is what memory and file hold beside the slots of that refresh.
C28_Witness ==
    \E c \in Chats :
        /\ loops[c].pc = "posting"
        /\ loops[c].setting # NoneVal
        /\ loops[c].setting.began = << "0", "0", ":", "0", "0" >>
        /\ loops[c].setting.ended = << "2", "0", ":", "3", "0" >>
        /\ payload.autopost_time = loops[c].setting.ended
        /\ payload.today.fetched_at = payload.updated_at
        /\ payload.today.holidays # << >>
        /\ loops[c].result.fetched_at = payload.updated_at
        /\ disk = payload

\* The fire instant of loop c is at the time of day the stored setting
\* names: written as HH:MM it is the stored string.
FromStoredSetting(c) ==
    /\ loops[c].next_run # NoneVal
    /\ Format02(loops[c].next_run.hour) \o << ":" >>
         \o Format02(loops[c].next_run.minute) = payload.autopost_time

\* Loop c has computed its fire instant from the stored setting and is at
\* its wait.
Recomputed(c) ==
    /\ loops[c].pc \in {"waiting", "signalled"}
    /\ FromStoredSetting(c)

\* C29: of the loops that share the change signal none is suspended until an
\* instant computed from a setting that has been replaced, and each of them
\* again and again stands at its wait with an instant computed from the
\* stored setting, whatever it was doing when the signal was raised and
\* whichever loop cleared the signal.
C29_EveryLoopFollowsTheSetting ==
    /\ [](\A c \in SharedChats : loops[c].pc = "waiting" => FromStoredSetting(c))
    /\ \A c \in SharedChats : []<>Recomputed(c)

\* One loop was woken by the signal and cleared it; the other was last woken
\* by the timeout of 00:00, met the cleared signal at its next wait, and yet
\* waits for 20:30 like the first.
C29_Witness ==
    /\ payload.autopost_time = << "2", "0", ":", "3", "0" >>
    /\ ~autopost_event
    /\ \A c \in SharedChats :
          /\ loops[c].pc = "waiting"
          /\ loops[c].next_run.hour = 20 /\ loops[c].next_run.minute = 30
    /\ loops["chat"].woken = "signal"
    /\ loops["chat2"].woken = "timeout"
    /\ loops["chat2"].fired.hour = 0

\* The name mentions the source country: one of its two spellings occurs in
\* it, letter case apart.
MentionsCountry(h) ==
    \E needle \in { NeedleCyrillic, NeedleLatin } :
        \E i \in 1..(Len(h) - 5) :
            \A k \in 1..6 : h[i + k - 1] = needle[k] \/ (h[i + k - 1] \in DOMAIN LowerOf /\ LowerOf[h[i + k - 1]] = needle[k])

Selected == last.call.op = "select_autopost_holiday" /\ last.call.pc = "done"

\* C25: select_autopost_holiday returns the first entry, in the given order,
\* that names the source country in neither spelling (letter case apart); the
\* first entry when every entry names it; nothing for an empty sequence; and
\* always an element of a non-empty input.
C25_SelectsFirstNotNamingTheCountry ==
    Selected =>
        LET holidays == last.call.target
            ret == last.call.ret
            free == { i \in 1..Len(holidays) : ~MentionsCountry(holidays[i]) }
        IN  /\ holidays = << >> => ret = NoneVal
            /\ holidays # << >> => \E i \in 1..Len(holidays) : ret = Str(holidays[i])
            /\ free # {} => \E i \in free : ret = Str(holidays[i]) /\ \A j \in free : i <= j
            /\ holidays # << >> /\ free = {} => ret = Str(holidays[1])

\* A selection that passed over an entry in Latin capitals and one in Cyrillic
\* capitals to return the genitive, which is not the spelling looked for.
C25_Witness ==
    /\ Selected
    /\ Len(last.call.target) = 3
    /\ Contains(last.call.target[1], << "R", "U", "S", "S", "I", "A" >>)
    /\ Contains(last.call.target[2], << "CYR_R", "CYR_O" >>)
    /\ Contains(last.call.target[3], << "cyr_i", "cyr_i" >>)
    /\ last.call.ret = Str(last.call.target[3])

\* How many containers are open, the target included, after each of the
\* calls of a markup: counted from the start and end tags alone.
OpenContainers(m) ==
    LET d[k \in 0..Len(m)] ==
            IF k = 0 THEN 0
            ELSE IF m[k].kind = "start" /\ m[k].tag = "div"
                 THEN IF d[k - 1] > 0 THEN d[k - 1] + 1
                      ELSE IF m[k].id = TargetDivId THEN 1 ELSE 0
            ELSE IF m[k].kind = "end" /\ m[k].tag = "div" /\ d[k - 1] > 0 THEN d[k - 1] - 1
            ELSE d[k - 1]
    IN  d

\* The text nodes between the target's start tag and its matching end tag.
TextInsideTarget(m) ==
    { i \in 1..Len(m) : m[i].kind = "data" /\ OpenContainers(m)[i - 1] > 0 }

\* C23: extraction returns the texts of the qualifying anchors between the
\* target's start tag and its matching end tag; in particular every character
\* of a returned name was read from a text node inside the target, and what
\* follows the target's end tag contributes nothing.
C23_NamesComeFromInsideTheTarget ==
    Parsing =>
        \A n \in 1..Len(Parser.holidays) :
            \A k \in 1..Len(Parser.holidays[n]) :
                \E i \in TextInsideTarget(Markup) :
                    \E j \in 1..Len(Markup[i].data) : Markup[i].data[j] = Parser.holidays[n][k]

\* C24: the capture flag is never set while the parser is outside the target,
\* also when the target's end tag arrives while a qualifying anchor is open.
C24_CaptureOnlyInsideTarget ==
    Parsing => (Parser.capture => Parser.inside_target)

\* The file initialize_holiday_cache found.
FileFound == last.call.target

Initialized == last.call.op = "initialize_holiday_cache" /\ last.call.pc = "done"

Queried == last.call.op = "get_autopost_time" /\ last.call.pc = "done"

\* C21: once the load has returned, the persisted payload holds a `today`
\* slot, a `tomorrow` slot, an autopost time and an autopost_message_ids
\* mapping.
C21_PersistedPayloadIsComplete ==
    (Initialized \/ Queried) /\ ~last.call.failed =>
        /\ disk.kind = "json"
        /\ disk.value.kind = "object"
        /\ Truthy(disk.value.today)
        /\ Truthy(disk.value.tomorrow)
        /\ Truthy(disk.value.autopost_time)
        /\ disk.value.autopost_message_ids.kind = "dict"

\* The file exists and is corrupt: invalid JSON, bytes that cannot be decoded,
\* or a JSON value that is no object.
Corrupt(file) ==
    \/ file.kind \in { "invalid_json", "undecodable" }
    \/ file.kind = "json" /\ file.value.kind # "object"

\* C22: a corrupt cache file makes the load recreate the default payload and
\* persist it, and no error reaches the caller of initialize_holiday_cache
\* or of a later query.
C22_CorruptFileIsHealed ==
    (Initialized \/ Queried) /\ Corrupt(FileFound) =>
        /\ ~last.call.failed
        /\ payload = default_object(DefaultAutopostTime, clock)
        /\ disk = JsonFile(payload)

\* The title step of a cycle is over.
TitleStepDone(c) == loops[c].pc = "sending"

\* C31: the emoji a cycle prefixes to the chat title is the one selected from
\* that cycle's holiday result, and a cycle whose result has no holidays
\* applies no emoji to the title.
C31_TitleEmojiIsOfThisCycle ==
    \A c \in Chats :
        TitleStepDone(c) /\ loops[c].applied # NoneVal =>
            /\ loops[c].result.holidays # << >>
            /\ loops[c].applied = select_for_autopost(loops[c].result.holidays).selected_emoji

====
